---- MODULE Spec2Model ----
(***************************************************************************)
(* Verification model of the kvs repository (lucasalj/kvs).                *)
(*                                                                         *)
(* Part 1: the log-structured storage engine KvStore (src/src/kvstore.rs). *)
(* The data directory is modelled at byte level: every segment file is a   *)
(* sequence of bytes, records are serialized and deserialized the way      *)
(* bincode lays them out (u32 little-endian variant tag, u64 little-endian *)
(* string lengths), and the engine's handlers are translated one action    *)
(* per public operation.                                                   *)
(***************************************************************************)
EXTENDS Integers, Sequences, FiniteSets, TLC

VARIABLES
    disk,                       \* file contents: segment id -> bytes (kept while a handle may be open)
    dir,                        \* ids of the segment files linked in the data directory
    storage_index,              \* KvStore.storage_index: key -> CommandIndex
    curr_log,                   \* WriterControlData.curr_log: LogFileWriter
    total_cmd_counter,          \* WriterControlData.total_cmd_counter
    curr_log_r,                 \* KvStore.curr_log_r of a long-lived handle (id of its reader)
    open_log_r,                 \* reader created by open; what every fresh clone starts with
    last_collected_file_index,  \* KvStore.last_collected_file_index
    deferred,                   \* segment ids whose remove_file closure is deferred
    opened,                     \* FALSE after a failed open: no engine handle exists
    expected,                   \* history: per key, what the call history says get must return
    last,                       \* history: the last operation, its input and its result
    prev,                       \* history: engine state just before the last operation
    origin,                     \* history: "empty" or "left", the directory the behaviour began with
    nops,                       \* number of mutating calls made so far
    nfaults,                    \* number of injected I/O faults so far
    pending,                    \* a get in flight: the index entry it loaded, its epoch pin
    got,                        \* history: the answer of the last get that was in flight
    channel,                    \* SharedQueueThreadPool: the jobs in the unbounded channel
    channel_sender,             \* the pool's Sender is alive (the pool was not dropped)
    workers,                    \* the threads the pool has spawned, replacements included
    jobs,                       \* history: the jobs given to spawn
    send_failed,                \* history: a send returned Err and spawn panicked
    run_state,                  \* KvServer::run: still in its loop, or what it returned
    backlog,                    \* connections the listener has not accepted yet
    edge,                       \* a readable event of the listener waits to be handled
    conns,                      \* every connection made: its frame, its job, its answer
    compactor_running,          \* the AtomicBool of run
    compaction_timer_check_count,
    compact_jobs,               \* compaction jobs in the pool that have not finished
    shutdown_trigger,           \* the AtomicBool of KvServerShutdownTrigger
    sent,                       \* cp: the Message given to to_bytes
    wire,                       \* cp: the bytes on the wire, as written or as damaged
    damage,                     \* cp: what was done to the bytes after they were written
    decoded,                    \* cp: what from_bytes made of the bytes
    client,                     \* a run of a client command: KvClient or the kvs-client binary
    decision,                   \* should_run_compaction: the counts it was given, its answer
    writer_ctrl,                \* the Mutex of KvStore.writer_ctrl: its holder, the offset it guards
    callers,                    \* the threads calling set, remove and compact on clones of one engine
    records,                    \* the records of the log, each with the critical section that wrote it
    entries,                    \* the index entries, each with the critical section that stored it
    ncalls                      \* number of calls the threads have made

enginevars == <<disk, dir, storage_index, curr_log, total_cmd_counter, curr_log_r,
                open_log_r, last_collected_file_index, deferred, opened, expected,
                last, prev, origin, nops, nfaults>>

getvars == <<pending, got>>

poolvars == <<channel, channel_sender, workers, jobs, send_failed>>

srvvars == <<run_state, backlog, edge, conns, compactor_running,
             compaction_timer_check_count, compact_jobs>>

\* everything the calls made on the engine one at a time leave alone
cpvars == <<sent, wire, damage, decoded, client>>

decvars == <<decision>>

lockvars == <<writer_ctrl, callers, records, entries, ncalls>>

others == <<poolvars, srvvars, shutdown_trigger, cpvars, decvars, lockvars>>
outside == <<getvars, others>>
notpool == <<enginevars, getvars, srvvars, shutdown_trigger, cpvars, decvars, lockvars>>
\* what the handlers and the jobs of the server leave alone
notsrv == <<enginevars, getvars, poolvars, shutdown_trigger, cpvars, decvars, lockvars>>
notrun == <<enginevars, getvars, poolvars, cpvars, decvars, lockvars>>
notcp == <<enginevars, getvars, poolvars, srvvars, shutdown_trigger, decvars, lockvars>>
notdec == <<enginevars, getvars, poolvars, srvvars, shutdown_trigger, cpvars, lockvars>>
notlock == <<enginevars, getvars, poolvars, srvvars, shutdown_trigger, cpvars, decvars>>

vars == <<enginevars, getvars, poolvars, srvvars, shutdown_trigger, cpvars, decvars, lockvars>>

---------------------------------------------------------------------------
(* Bounds of the model and scaled program constants.                       *)

\* mutating calls (set, remove, compact, open) per behaviour
MaxOps == 4
\* an injected I/O fault hits the 1st or the 2nd I/O call of its kind inside one
\* operation; a behaviour has at most one injected fault
FaultAt == {1, 2}

\* kvstore.rs:32 has 10000; scaled down so that the thresholds are crossed
CMDS_THRESHOLD == 2
\* kvstore.rs:36 has 1073741824; scaled down to a little over two records
CURR_FILE_OFFSET_THRESHOLD == 50

\* keys and values as UTF-8 byte strings: "a", "b" and "1", "2"
Keys == {<<97>>, <<98>>}
Values == {<<49>>, <<50>>}
\* number of bytes of a record that reach the file when its write fails
Cuts == {0, 6}

---------------------------------------------------------------------------
(* Generic helpers.                                                        *)

Put(f, k, v) == [x \in (DOMAIN f) \cup {k} |-> IF x = k THEN v ELSE f[x]]
Del(f, k) == [x \in (DOMAIN f) \ {k} |-> f[x]]
Min(a, b) == IF a < b THEN a ELSE b
SetMin(S) == CHOOSE x \in S : \A y \in S : x <= y
\* bytes [from, from + n) of b, offsets counted from 0
Slice(b, from, n) == SubSeq(b, from + 1, from + n)

RECURSIVE SortedIds(_)
SortedIds(S) == IF S = {} THEN <<>> ELSE <<SetMin(S)>> \o SortedIds(S \ {SetMin(S)})

---------------------------------------------------------------------------
(* bincode layout of enum Command.                                         *)

CmdSet(k, v) == [tag |-> "Set", key |-> k, value |-> v]
CmdRemove(k) == [tag |-> "Remove", key |-> k, value |-> <<>>]

U32LE(n) == <<n % 256, (n \div 256) % 256, (n \div 65536) % 256, (n \div 16777216) % 256>>
U64LE(n) == U32LE(n) \o <<0, 0, 0, 0>>
SerStr(s) == U64LE(Len(s)) \o s

Serialize(cmd) ==
    IF cmd.tag = "Set"
    THEN U32LE(0) \o SerStr(cmd.key) \o SerStr(cmd.value)
    ELSE U32LE(1) \o SerStr(cmd.key)

\* any length that does not fit the files of the model
Beyond == 65536

\* value of a little-endian u64 length; lengths of 64 KiB and more are not told apart,
\* lengths of 4 GiB and more are "huge" (-1: their buffer may not be allocatable)
LenOf(b8) ==
    IF b8[5] # 0 \/ b8[6] # 0 \/ b8[7] # 0 \/ b8[8] # 0 THEN -1
    ELSE IF b8[3] # 0 \/ b8[4] # 0 THEN Beyond
    ELSE b8[1] + 256 * b8[2]

StrFail(kind, pos) == [kind |-> kind, str |-> <<>>, next |-> pos]

\* the body of a string of n bytes whose length field starts at offset pos of b
ReadStrBody(b, pos, n) ==
    IF n = -1 THEN StrFail("Huge", pos)
    ELSE IF pos + 8 + n > Len(b) THEN StrFail("Eof", pos)
    ELSE [kind |-> "Ok", str |-> Slice(b, pos + 8, n), next |-> pos + 8 + n]

\* a length-prefixed string at offset pos of b (every byte of the model is ASCII,
\* so the UTF-8 check of the decoder always passes)
ReadStr(b, pos) ==
    IF pos + 8 > Len(b) THEN StrFail("Eof", pos)
    ELSE ReadStrBody(b, pos, LenOf(Slice(b, pos, 8)))

DecFail(kind, pos) == [kind |-> kind, key |-> <<>>, value |-> <<>>, next |-> pos]

DecodeSetValue(pos, k, v) ==
    IF v.kind # "Ok" THEN DecFail(v.kind, pos)
    ELSE [kind |-> "Set", key |-> k.str, value |-> v.str, next |-> v.next]

DecodeSetKey(b, pos, k) ==
    IF k.kind # "Ok" THEN DecFail(k.kind, pos)
    ELSE DecodeSetValue(pos, k, ReadStr(b, k.next))

DecodeRemoveKey(pos, k) ==
    IF k.kind # "Ok" THEN DecFail(k.kind, pos)
    ELSE [kind |-> "Remove", key |-> k.str, value |-> <<>>, next |-> k.next]

DecodeTagged(b, pos, tag) ==
    IF tag = U32LE(0) THEN DecodeSetKey(b, pos, ReadStr(b, pos + 4))
    ELSE IF tag = U32LE(1) THEN DecodeRemoveKey(pos, ReadStr(b, pos + 4))
    ELSE DecFail("Invalid", pos)

\* bincode::deserialize_from::<_, Command> on the bytes of b from offset pos:
\* kind is "Set" or "Remove" (next = offset after the record), "Eof" (io UnexpectedEof),
\* "Invalid" (unknown variant tag) or "Huge" (a string length of 4 GiB or more)
DecodeAt(b, pos) ==
    IF pos + 4 > Len(b) THEN DecFail("Eof", pos)
    ELSE DecodeTagged(b, pos, Slice(b, pos, 4))

---------------------------------------------------------------------------
(* I/O faults.  A fault names the kind of I/O call that fails and which    *)
(* call of that kind inside the operation it hits; cut is the number of    *)
(* bytes a failing write leaves in the file.                               *)

NoFault == [kind |-> "none", n |-> 0, cut |-> 0]
Fired == [kind |-> "fired", n |-> 0, cut |-> 0]
AppendFaults == {[kind |-> "append", n |-> 1, cut |-> c] : c \in Cuts}
CompactFaults ==
    {[kind |-> "open_new", n |-> 1, cut |-> 0]}
    \cup {[kind |-> k, n |-> i, cut |-> 0] : k \in {"open_seg", "read"}, i \in FaultAt}
    \cup {[kind |-> "append", n |-> i, cut |-> c] : i \in FaultAt, c \in Cuts}

Hits(flt, kind) == flt.kind = kind /\ flt.n = 1
Tick(flt, kind) == IF flt.kind = kind /\ flt.n > 1 THEN [flt EXCEPT !.n = @ - 1] ELSE flt

---------------------------------------------------------------------------
(* The engine state as one record, and the engine's internal functions as  *)
(* operators from state to state.  status is "Ok" until a function returns *)
(* Err or panics; why says where.                                          *)

Engine(flt) ==
    [disk |-> disk, dir |-> dir, index |-> storage_index, curr_log |-> curr_log,
     total |-> total_cmd_counter, watermark |-> last_collected_file_index,
     deferred |-> deferred, flt |-> flt, oom |-> FALSE, status |-> "Ok", why |-> "",
     nbytes |-> 0]

Failed(st, status, why) == [st EXCEPT !.status = status, !.why = why]

\* LogFileWriter::append_cmd with the serialized command: the file is opened with
\* append(true), so the bytes land at the end of the file the handle is open on,
\* whatever the tracked offset says
AppendBytes(st, bytes) ==
    IF Hits(st.flt, "append")
    THEN [st EXCEPT !.disk[st.curr_log.writer] =
                        @ \o SubSeq(bytes, 1, Min(st.flt.cut, Len(bytes) - 1)),
                    !.status = "Err", !.why = "append", !.flt = Fired]
    ELSE [st EXCEPT !.disk[st.curr_log.writer] = @ \o bytes,
                    !.curr_log.offset = @ + Len(bytes),
                    !.curr_log.cmd_counter = @ + 1,
                    !.flt = Tick(@, "append"),
                    !.nbytes = Len(bytes)]

AppendCmd(st, cmd) == AppendBytes(st, Serialize(cmd))

\* WriterControlData::inc_total_cmd_counter, reached only when the append returned Ok
IncTotalCmdCounter(st) == IF st.status # "Ok" THEN st ELSE [st EXCEPT !.total = @ + 1]

\* KvStore::write_cmd_to_curr_log
WriteCmdToCurrLog(st, cmd) == IncTotalCmdCounter(AppendCmd(st, cmd))

\* storage_index.insert(key, CommandIndex {log_id, offset, len}), reached only when
\* the write returned Ok
IndexInsert(st, key, log_id, offset) ==
    IF st.status # "Ok" THEN st
    ELSE [st EXCEPT !.index = Put(@, key,
                        [log_id |-> log_id, offset |-> offset, len |-> st.nbytes])]

\* KvStore::insert_entry: id and offset are read before the write
InsertEntry(st, key, value) ==
    IndexInsert(WriteCmdToCurrLog(st, CmdSet(key, value)), key,
                st.curr_log.id, st.curr_log.offset)

\* storage_index.remove(&key, index_guard)
IndexEvictKeep(index, key) == index
IndexEvict(index, key) == Del(index, key)

\* KvStore::_remove: the key leaves the index before the record is written
RemoveEntry(st, key) ==
    IF key \notin DOMAIN st.index THEN Failed(st, "Err", "RemoveNonExistentKey")
    ELSE WriteCmdToCurrLog([st EXCEPT !.index = IndexEvict(@, key)], CmdRemove(key))

---------------------------------------------------------------------------
(* The read path.                                                          *)

Res(kind, val, why) == [kind |-> kind, val |-> val, why |-> why]

\* LogFileReader::read_cmd_at on a file holding bytes b: read_exact_at, then
\* bincode::deserialize of the buffer (trailing bytes are allowed)
ReadCmdAt(b, offset, len) ==
    IF offset + len > Len(b) THEN DecFail("Eof", offset)
    ELSE DecodeAt(Slice(b, offset, len), 0)

\* the tail of read_value_from_log_at: the command read becomes the result
ValueOf(cmd, rd) ==
    IF cmd.kind = "Set" THEN [res |-> Res("Some", cmd.value, ""), reader |-> rd]
    ELSE IF cmd.kind = "Remove"
         THEN [res |-> Res("Err", <<>>, "WrongFileOffset"), reader |-> rd]
         ELSE [res |-> Res("Err", <<>>, "read"), reader |-> rd]

\* the reader read_value_from_log_at reads through, r being the reader loaded from
\* the handle: the reference loaded before the store of a new reader is used
ReaderUsed(r, log_id) == r

\* KvStore::read_value_from_log_at with the handle's reader open on segment r:
\* the result of the call and the reader the handle holds afterwards
ReadValueFromLogAt(dk, d, r, ci) ==
    IF ci.log_id # r /\ ci.log_id \notin d
    THEN [res |-> Res("Err", <<>>, "open"), reader |-> r]
    ELSE ValueOf(ReadCmdAt(dk[ReaderUsed(r, ci.log_id)], ci.offset, ci.len), ci.log_id)

\* KvStore::_get through a handle whose reader is open on segment r
GetVia(dk, d, index, r, key) ==
    IF key \in DOMAIN index
    THEN ReadValueFromLogAt(dk, d, r, index[key])
    ELSE [res |-> Res("None", <<>>, ""), reader |-> r]

\* what get(key) returns in the current state through a handle whose reader is on r
GetNow(r, key) == GetVia(disk, dir, storage_index, r, key).res

\* the readers a caller may come with: the long-lived handle's, a fresh clone's
Readers == {curr_log_r, open_log_r}

---------------------------------------------------------------------------
(* Rollover and compaction.                                                *)

\* KvStore::should_create_new_file
ShouldCreateNewFile(cl) ==
    cl.offset > CURR_FILE_OFFSET_THRESHOLD \/ cl.cmd_counter > CMDS_THRESHOLD \div 2

\* LogFileWriter::open_another, called by KvStore::do_create_new_file with id + 1:
\* the id is assigned before the file is opened
OpenAnother(st) ==
    IF Hits(st.flt, "open_new")
    THEN [st EXCEPT !.curr_log.id = @ + 1, !.status = "Err", !.why = "open_new", !.flt = Fired]
    ELSE [st EXCEPT !.curr_log = [id |-> @.id + 1, writer |-> @.id + 1,
                                  cmd_counter |-> 0, offset |-> 0],
                    !.dir = @ \cup {st.curr_log.id + 1},
                    !.disk = IF st.curr_log.id + 1 \in st.dir THEN @
                             ELSE Put(@, st.curr_log.id + 1, <<>>)]

\* KvStore::should_run_compaction, for a non-empty index: the quotient is an integer
\* division converted to f64 and compared with CMD_KEY_FACTOR = 1.5
ShouldRunCompaction(total, nkeys) ==
    total > CMDS_THRESHOLD /\ 2 * (total \div nkeys) > 3

\* the largest counts should_run_compaction is given on its own
MaxTotal == 17
MaxKeys == 10

\* KvStore::should_run_compaction called with total_cmd_counter = total and
\* storage_index.len() = nkeys: the && does not divide when its left side is false,
\* and an integer division by zero panics
Decide(total, nkeys) ==
    /\ ~decision.called
    /\ decision' = [called |-> TRUE, total |-> total, nkeys |-> nkeys,
                    out |-> IF total > CMDS_THRESHOLD /\ nkeys = 0 THEN "Panic"
                            ELSE IF ShouldRunCompaction(total, nkeys) THEN "pass"
                            ELSE "skip"]
    /\ UNCHANGED notdec

\* KvStore::get_active_file_id_offsets_map, looked up for one log id
ActiveOffsets(index, log_id) ==
    {index[k].offset : k \in {x \in DOMAIN index : index[x].log_id = log_id}}

\* WriterControlData::sub_total_cmd_counter
SubTotal(st, n) ==
    IF n > st.total THEN Failed(st, "Panic", "underflow") ELSE [st EXCEPT !.total = @ - n]

RECURSIVE CompactFile(_, _, _, _, _)

\* one iteration of the loop of do_compaction, d being the record decoded at pos
CompactRecord(st, log_id, pos, cnt, active, d) ==
    IF d.kind = "Set" /\ pos \in active
        THEN CompactFile(InsertEntry(st, d.key, d.value), log_id, d.next, cnt + 1, active)
    ELSE IF d.kind \in {"Set", "Remove"}
        THEN CompactFile(st, log_id, d.next, cnt + 1, active)
    ELSE IF d.kind = "Eof" THEN SubTotal(st, cnt)
    ELSE IF d.kind = "Huge" THEN
         IF st.oom THEN Failed(st, "Panic", "alloc")
         ELSE SubTotal(st, cnt)
    ELSE Failed(st, "Err", "decode")

\* the loop of do_compaction over one segment file: the file is read again at every
\* iteration (BufReader::seek discards the buffer), so records appended to it by
\* insert_entry in the meantime are read too
CompactFile(st, log_id, pos, cnt, active) ==
    IF st.status # "Ok" THEN st
    ELSE IF Hits(st.flt, "read")
        THEN [st EXCEPT !.status = "Err", !.why = "read", !.flt = Fired]
    ELSE CompactRecord([st EXCEPT !.flt = Tick(@, "read")], log_id, pos, cnt, active,
                       DecodeAt(st.disk[log_id], pos))

\* the end of one iteration of the for loop: the watermark moves and the file's
\* removal is deferred
Retire(st, log_id) ==
    IF st.status # "Ok" THEN st
    ELSE [st EXCEPT !.watermark = log_id, !.deferred = @ \cup {log_id}]

\* the for loop of do_compaction over the selected segments, ascending
RECURSIVE CompactSegments(_, _, _)
CompactSegments(st, ids, index0) ==
    IF ids = <<>> \/ st.status # "Ok" THEN st
    ELSE IF Hits(st.flt, "open_seg")
        THEN [st EXCEPT !.status = "Err", !.why = "open_seg", !.flt = Fired]
    ELSE CompactSegments(
             Retire(CompactFile([st EXCEPT !.flt = Tick(@, "open_seg")], Head(ids), 0, 0,
                                ActiveOffsets(index0, Head(ids))),
                    Head(ids)),
             Tail(ids), index0)

\* the watermark a freshly opened engine starts with: open sets it to log_id - 1
InitialWatermark(log_id) == log_id - 1

\* the segments a pass selects
SelectedSegments(d, curr_log_id, watermark) ==
    {id \in d : id < curr_log_id /\ id > watermark}

Passed(st) == IF st.status = "Ok" THEN [st EXCEPT !.why = "pass"] ELSE st

\* KvStore::do_compaction
DoCompaction(st) ==
    Passed(CompactSegments(st,
               SortedIds(SelectedSegments(st.dir, st.curr_log.id, st.watermark)), st.index))

\* the second half of _compact
MaybeCompact(st) ==
    IF st.status # "Ok" THEN st
    ELSE IF st.total > CMDS_THRESHOLD /\ DOMAIN st.index = {}
         THEN Failed(st, "Panic", "divide by zero")
    ELSE IF ShouldRunCompaction(st.total, Cardinality(DOMAIN st.index))
         THEN DoCompaction(st)
    ELSE st

\* KvStore::_compact
CompactEngine(st) ==
    MaybeCompact(IF ShouldCreateNewFile(st.curr_log) THEN OpenAnother(st) ELSE st)

---------------------------------------------------------------------------
(* Opening a directory.                                                    *)

RECURSIVE ScanFile(_, _, _, _, _)

\* one iteration of the loop of build_index, d being the record decoded at pos;
\* acc.stop is the offset at which decoding stopped
ScanRecord(b, log_id, pos, acc, oom, d) ==
    IF d.kind = "Set" THEN
        ScanFile(b, log_id, d.next,
                 [acc EXCEPT !.index = Put(@, d.key,
                                 [log_id |-> log_id, offset |-> pos, len |-> d.next - pos]),
                             !.total = @ + 1, !.cmd_counter = @ + 1], oom)
    ELSE IF d.kind = "Remove" THEN
        ScanFile(b, log_id, d.next,
                 [acc EXCEPT !.index = Del(@, d.key), !.total = @ + 1, !.cmd_counter = @ + 1],
                 oom)
    ELSE IF d.kind = "Eof" THEN [acc EXCEPT !.stop = pos]
    ELSE IF d.kind = "Huge" THEN
        IF oom THEN [acc EXCEPT !.status = "Panic", !.why = "alloc", !.stop = pos]
        ELSE [acc EXCEPT !.stop = pos]
    ELSE [acc EXCEPT !.status = "Err", !.why = "decode", !.stop = pos]

ScanFile(b, log_id, pos, acc, oom) == ScanRecord(b, log_id, pos, acc, oom, DecodeAt(b, pos))

\* KvStore::build_index: the files in id order
RECURSIVE BuildIndex(_, _, _, _)
BuildIndex(dk, ids, acc, oom) ==
    IF ids = <<>> \/ acc.status # "Ok" THEN acc
    ELSE BuildIndex(dk, Tail(ids),
                    ScanFile(dk[Head(ids)], Head(ids), 0,
                             [acc EXCEPT !.curr_log_id = Head(ids), !.cmd_counter = 0], oom),
                    oom)

EmptyScan ==
    [index |-> << >>, total |-> 0, curr_log_id |-> 0, cmd_counter |-> 0, stop |-> 0,
     status |-> "Ok", why |-> ""]

\* LogFileWriter::open on a file holding bytes b: create(true), append(true),
\* offset = seek(End(0))
WriterOpen(id, b, cmd_counter) ==
    [id |-> id, writer |-> id, cmd_counter |-> cmd_counter, offset |-> Len(b)]

---------------------------------------------------------------------------
(* History bookkeeping.                                                    *)

Absent == Res("None", <<>>, "")
Removed == Res("None", <<>>, "removed")
Unknown == Res("Unknown", <<>>, "")

Op(op, key, value, res, exp) ==
    [op |-> op, key |-> key, value |-> value, res |-> res, exp |-> exp, stop |-> 0]

StatusRes(st) == Res(st.status, <<>>, st.why)

\* what get returns for each key through a handle whose reader is on r
GetsNow(r) == [k \in Keys |-> GetNow(r, k)]
NoGets == [k \in Keys |-> Unknown]

\* the state a call starts from; own and clone are the answers get gave through the
\* long-lived handle and through a fresh clone (recorded for compact calls only)
Snapshot(own, clone) ==
    [index |-> storage_index, curr_log |-> curr_log, dir |-> dir, reader |-> curr_log_r,
     get_own |-> own, get_clone |-> clone]

\* the engine variables take the values of the state record st
Commit(st) ==
    /\ disk' = st.disk
    /\ dir' = st.dir
    /\ storage_index' = st.index
    /\ curr_log' = st.curr_log
    /\ total_cmd_counter' = st.total
    /\ last_collected_file_index' = st.watermark
    /\ deferred' = st.deferred
    /\ nfaults' = IF st.flt.kind = "fired" \/ st.why = "alloc" THEN nfaults + 1 ELSE nfaults

FaultChoice(S) == IF nfaults = 0 THEN {NoFault} \cup S ELSE {NoFault}

\* whether the allocation for a string whose length prefix is 4 GiB or more fails
\* (the process stops) or succeeds (the read then meets the end of the file); such a
\* prefix is only ever decoded once a failed append has left a partial record
OomChoice == IF nfaults = 0 THEN {FALSE} ELSE BOOLEAN

---------------------------------------------------------------------------
(* Actions.                                                                *)

\* a directory an earlier run of the engine left behind: set(a, 1), set(b, 1) and a
\* compact call that rolled over to segment 1
LeftFiles ==
    (0 :> (Serialize(CmdSet(<<97>>, <<49>>)) \o Serialize(CmdSet(<<98>>, <<49>>))))
    @@ (1 :> <<>>)

\* no get is in flight, none has been
NoPending ==
    [phase |-> "none", key |-> <<>>, found |-> FALSE,
     ci |-> [log_id |-> 0, offset |-> 0, len |-> 0], deferred0 |-> {}, exp |-> Unknown]
NoGot == [key |-> <<>>, res |-> Unknown, exp |-> Unknown, concurrent |-> FALSE]

\* the threads argument of SharedQueueThreadPool::new, and the jobs a behaviour submits
PoolThreads == 2
MaxJobs == 3

\* a thread of the pool: blocked in or about to call r.recv()
Waiting == [st |-> "recv", job |-> 0]

\* SharedQueueThreadPool::new(threads): an unbounded channel and `threads` threads,
\* each entering the loop at r.recv()
PoolNew(threads) ==
    /\ channel = <<>>
    /\ channel_sender = TRUE
    /\ workers = [w \in 1..threads |-> Waiting]
    /\ jobs = <<>>
    /\ send_failed = FALSE

\* cp/mod.rs: the first byte of every message, and the size of the header
PROTOCOL_VERSION == 193
HEADER_SIZE == 5

\* the codec before anything was written or read
NoMessage == [kind |-> "", key |-> <<>>, value |-> <<>>, code |-> "", opt |-> <<>>]
NoDamage == [kind |-> "none", pos |-> 0]
NotDecoded == [ok |-> FALSE, msg |-> NoMessage, err |-> "not decoded", next |-> 0]

\* no client command was started
NoClient == [phase |-> "idle", prog |-> "", cmd |-> "", res |-> [kind |-> "", val |-> <<>>],
             exit |-> 0]

\* SERVER_COMPACTION_PERIOD / SERVER_TIMER_CHECK_PERIOD in milliseconds, and the
\* connections a behaviour makes
SERVER_TIMER_CHECK_PERIOD == 100
SERVER_COMPACTION_PERIOD == 5000
compaction_timer_check_init == SERVER_COMPACTION_PERIOD \div SERVER_TIMER_CHECK_PERIOD
MaxConns == 2

Running == [st |-> "running", why |-> ""]

\* KvServer::run before its loop: listener, poll, timer, the tick counter, the flag
\* the threads that call set, remove and compact, and the calls they make in all
LockThreads == 2
MaxCalls == 3
ThreadIds == 1..LockThreads

\* a thread that is in none of _set, _remove and _compact
Idle == [pc |-> "idle", op |-> "", key |-> <<>>, offset |-> 0, section |-> 0, todo |-> {}]

\* should_run_compaction has not been called
NoDecision == [called |-> FALSE, total |-> 0, nkeys |-> 0, out |-> ""]

RunSetup ==
    /\ run_state = Running
    /\ backlog = <<>>
    /\ edge = FALSE
    /\ conns = <<>>
    /\ compactor_running = FALSE
    /\ compaction_timer_check_count = compaction_timer_check_init
    /\ compact_jobs = <<>>
    /\ shutdown_trigger = FALSE
    /\ sent = NoMessage /\ wire = <<>> /\ damage = NoDamage /\ decoded = NotDecoded
    /\ client = NoClient
    /\ decision = NoDecision
    /\ writer_ctrl = [holder |-> 0, offset |-> 0, sections |-> 0]
    /\ callers = [t \in ThreadIds |-> Idle]
    /\ records = <<>>
    /\ entries = <<>>
    /\ ncalls = 0

\* the directories a behaviour may begin with, and what the history that wrote them
\* says each key holds
InitDirs ==
    {[origin |-> "empty", files |-> << >>, expected |-> [k \in Keys |-> Absent]],
     [origin |-> "left", files |-> LeftFiles,
      expected |-> [k \in Keys |-> Res("Some", <<49>>, "")]]}

\* KvStore::open once build_index has returned scan; files is the directory after
\* LogFileWriter::open has created the file if it was missing
OpenedWith(scan, files) ==
    [disk |-> files, dir |-> DOMAIN files, index |-> scan.index, total |-> scan.total,
     curr_log |-> WriterOpen(scan.curr_log_id, files[scan.curr_log_id], scan.cmd_counter),
     reader |-> scan.curr_log_id,
     watermark |-> InitialWatermark(scan.curr_log_id),
     status |-> scan.status, why |-> scan.why, stop |-> scan.stop]

OpenScanned(scan, dk, d) ==
    OpenedWith(scan, [id \in d \cup {scan.curr_log_id} |-> IF id \in d THEN dk[id] ELSE <<>>])

\* KvStore::open on the directory holding the files dk of ids d
OpenDir(dk, d, oom) == OpenScanned(BuildIndex(dk, SortedIds(d), EmptyScan, oom), dk, d)

OpenOp(o) ==
    [Op("open", <<>>, <<>>, Res(o.status, <<>>, o.why), Unknown) EXCEPT !.stop = o.stop]

InitFrom(o, init) ==
    /\ disk = o.disk
    /\ dir = o.dir
    /\ storage_index = o.index
    /\ curr_log = o.curr_log
    /\ total_cmd_counter = o.total
    /\ curr_log_r = o.reader
    /\ open_log_r = o.reader
    /\ last_collected_file_index = o.watermark
    /\ deferred = {}
    /\ opened = TRUE
    /\ expected = init.expected
    /\ last = OpenOp(o)
    /\ prev = [index |-> << >>, curr_log |-> o.curr_log, dir |-> DOMAIN init.files,
               reader |-> o.reader,
               get_own |-> NoGets, get_clone |-> NoGets]
    /\ origin = init.origin
    /\ nops = 0
    /\ nfaults = 0

\* KvStore::open has returned an engine for one of the initial directories
Init ==
    /\ \E init \in InitDirs : InitFrom(OpenDir(init.files, DOMAIN init.files, FALSE), init)
    /\ pending = NoPending
    /\ got = NoGot
    /\ PoolNew(PoolThreads)
    /\ RunSetup

SetDone(st, key, value) ==
    /\ Commit(st)
    /\ last' = Op("set", key, value, StatusRes(st), expected[key])
    /\ expected' = [expected EXCEPT ![key] =
                       IF st.status = "Ok" THEN Res("Some", value, "live") ELSE Unknown]

\* KvsEngine::set -> KvStore::_set
Set(key, value, flt) ==
    /\ opened /\ nops < MaxOps
    /\ SetDone(InsertEntry(Engine(flt), key, value), key, value)
    /\ prev' = Snapshot(NoGets, NoGets)
    /\ nops' = nops + 1
    /\ UNCHANGED <<curr_log_r, open_log_r, opened, origin, outside>>

RemoveDone(st, key) ==
    /\ Commit(st)
    /\ last' = Op("remove", key, <<>>, StatusRes(st), expected[key])
    /\ expected' = [expected EXCEPT ![key] =
                       IF st.status = "Ok" THEN Removed
                       ELSE IF st.why = "RemoveNonExistentKey" THEN @ ELSE Unknown]

\* KvsEngine::remove -> KvStore::_remove
Remove(key, flt) ==
    /\ opened /\ nops < MaxOps
    /\ RemoveDone(RemoveEntry(Engine(flt), key), key)
    /\ prev' = Snapshot(NoGets, NoGets)
    /\ nops' = nops + 1
    /\ UNCHANGED <<curr_log_r, open_log_r, opened, origin, outside>>

\* KvsEngine::get -> KvStore::_get on the long-lived handle.  The value returned is
\* GetNow(curr_log_r, key); the call leaves the handle's reader on another segment.
Get(key) ==
    /\ opened
    /\ pending.phase = "none"
    /\ curr_log_r' = GetVia(disk, dir, storage_index, curr_log_r, key).reader
    /\ UNCHANGED <<disk, dir, storage_index, curr_log, total_cmd_counter, open_log_r,
                   last_collected_file_index, deferred, opened, expected, last, prev,
                   origin, nops, nfaults, outside>>

CompactDone(st) ==
    /\ Commit(st)
    /\ opened' = (st.why # "alloc")
    /\ last' = Op("compact", <<>>, <<>>, StatusRes(st), Unknown)

\* KvsCompactor::compact -> KvStore::_compact
Compact(flt, oom) ==
    /\ opened /\ nops < MaxOps
    /\ CompactDone(CompactEngine([Engine(flt) EXCEPT !.oom = oom]))
    /\ prev' = Snapshot(GetsNow(curr_log_r), GetsNow(open_log_r))
    /\ nops' = nops + 1
    /\ UNCHANGED <<curr_log_r, open_log_r, expected, origin, outside>>

\* a deferred closure of do_compaction runs: fs::remove_file(log_path).unwrap();
\* the epoch collector runs no closure while a get that was pinned before is pinned
RunDeferred(id) ==
    /\ id \in deferred
    /\ pending.phase = "none"
    /\ deferred' = deferred \ {id}
    /\ dir' = dir \ {id}
    /\ last' = Op("reclaim", <<>>, <<>>,
                  IF id \in dir THEN Res("Ok", <<>>, "") ELSE Res("Panic", <<>>, "unwrap"),
                  Unknown)
    /\ UNCHANGED <<disk, storage_index, curr_log, total_cmd_counter, curr_log_r, open_log_r,
                   last_collected_file_index, opened, expected, prev, origin, nops,
                   nfaults, outside>>

ReopenDone(o) ==
    /\ disk' = o.disk
    /\ dir' = o.dir
    /\ storage_index' = o.index
    /\ curr_log' = o.curr_log
    /\ total_cmd_counter' = o.total
    /\ curr_log_r' = o.reader
    /\ open_log_r' = o.reader
    /\ last_collected_file_index' = o.watermark
    /\ deferred' = {}
    /\ opened' = (o.status = "Ok")
    /\ last' = OpenOp(o)
    /\ nfaults' = IF o.status = "Panic" THEN nfaults + 1 ELSE nfaults

\* what the history says after a restart: a removed key is absent, a value set is
\* the value the directory must yield
Replayed(e) ==
    IF e.kind = "Unknown" THEN e ELSE Res(e.kind, e.val, "")

\* the handles are dropped and the process ends (closures still deferred never run);
\* KvStore::open is called on the directory again
Reopen(oom) ==
    /\ nops < MaxOps
    /\ pending.phase = "none"
    /\ ReopenDone(OpenDir(disk, dir, oom))
    /\ expected' = [k \in Keys |-> Replayed(expected[k])]
    /\ prev' = Snapshot(NoGets, NoGets)
    /\ nops' = nops + 1
    /\ UNCHANGED <<origin, outside>>

Next ==
    \/ \E k \in Keys, v \in Values, f \in FaultChoice(AppendFaults) : Set(k, v, f)
    \/ \E k \in Keys, f \in FaultChoice(AppendFaults) : Remove(k, f)
    \/ \E k \in Keys : Get(k)
    \/ \E f \in FaultChoice(CompactFaults), oom \in OomChoice : Compact(f, oom)
    \/ \E id \in deferred : RunDeferred(id)
    \/ \E oom \in OomChoice : Reopen(oom)

Spec == Init /\ [][Next]_vars

---------------------------------------------------------------------------
(* A get that runs while other calls are made: _get in two steps.          *)

\* KvStore::_get up to storage_index.get(&key, index_guard).cloned(): the thread is
\* pinned and holds a copy of the key's index entry
GetBegin(key) ==
    /\ opened /\ nops < MaxOps
    /\ pending.phase = "none"
    /\ pending' = [phase |-> "pinned", key |-> key, found |-> key \in DOMAIN storage_index,
                   ci |-> IF key \in DOMAIN storage_index THEN storage_index[key]
                          ELSE NoPending.ci,
                   deferred0 |-> deferred, exp |-> expected[key]]
    /\ nops' = nops + 1
    /\ UNCHANGED <<disk, dir, storage_index, curr_log, total_cmd_counter, curr_log_r,
                   open_log_r, last_collected_file_index, deferred, opened, expected,
                   last, prev, origin, nfaults, got, others>>

\* the answer of the get in flight, r being the reader of its handle
GetAnswer(r) ==
    IF pending.found THEN ReadValueFromLogAt(disk, dir, r, pending.ci)
    ELSE [res |-> Absent, reader |-> r]

\* the get was in flight while a pass retired the segment of the entry it holds
RetiredMeanwhile == pending.found /\ pending.ci.log_id \in deferred \ pending.deferred0

\* the rest of KvStore::_get: read_value_from_log_at with the entry loaded before
GetEnd ==
    /\ opened
    /\ pending.phase = "pinned"
    /\ curr_log_r' = GetAnswer(curr_log_r).reader
    /\ got' = [key |-> pending.key, res |-> GetAnswer(curr_log_r).res,
               exp |-> IF expected[pending.key] = pending.exp THEN pending.exp ELSE Unknown,
               concurrent |-> RetiredMeanwhile]
    /\ pending' = NoPending
    /\ UNCHANGED <<disk, dir, storage_index, curr_log, total_cmd_counter, open_log_r,
                   last_collected_file_index, deferred, opened, expected, last, prev,
                   origin, nops, nfaults, others>>

---------------------------------------------------------------------------
(* The shared-queue thread pool.                                           *)

\* the threads that have not ended; each owns a Receiver of the channel
Live == {w \in DOMAIN workers : workers[w].st # "dead"}
Busy == {w \in DOMAIN workers : workers[w].st = "run"}
Panics == Len(workers) - PoolThreads

\* Sender::send on an unbounded channel: never blocks; Err when no Receiver is left
SendOk == Live # {}

\* the channel after a successful send: the job is queued whatever the threads do
SentIfIdle(ch, j) == IF Busy = Live THEN ch ELSE Append(ch, j)
Sent(ch, j) == Append(ch, j)

\* SharedQueueThreadPool::spawn: channel_sender.send(Box::new(job)).unwrap()
PoolSpawn ==
    /\ channel_sender /\ ~send_failed
    /\ Len(jobs) < MaxJobs
    /\ jobs' = Append(jobs, [runs |-> 0])
    /\ channel' = IF SendOk THEN Sent(channel, Len(jobs) + 1) ELSE channel
    /\ send_failed' = ~SendOk
    /\ UNCHANGED <<channel_sender, workers, notpool>>

\* r.recv() returns Ok(task): the thread makes a PanicGuard and calls task()
WorkerRecv(w) ==
    /\ w \in DOMAIN workers /\ workers[w].st = "recv"
    /\ channel # <<>>
    /\ workers' = [workers EXCEPT ![w] = [st |-> "run", job |-> Head(channel)]]
    /\ jobs' = [jobs EXCEPT ![Head(channel)].runs = @ + 1]
    /\ channel' = Tail(channel)
    /\ UNCHANGED <<channel_sender, send_failed, notpool>>

\* task() returns: the guard is dropped outside a panic, the loop goes back to recv
WorkerFinish(w) ==
    /\ w \in DOMAIN workers /\ workers[w].st = "run"
    /\ workers' = [workers EXCEPT ![w] = Waiting]
    /\ UNCHANGED <<channel, channel_sender, jobs, send_failed, notpool>>

\* task() panics: the thread starts to unwind
WorkerPanic(w) ==
    /\ w \in DOMAIN workers /\ workers[w].st = "run"
    /\ workers' = [workers EXCEPT ![w].st = "panicking"]
    /\ UNCHANGED <<channel, channel_sender, jobs, send_failed, notpool>>

\* what PanicGuard::drop does to the thread list when thread::panicking()
GuardDropIdle(ws, w) == [ws EXCEPT ![w].st = "unwound"]
GuardDrop(ws, w) == Append([ws EXCEPT ![w].st = "unwound"], Waiting)

\* the unwinding drops _panic_guard: a new thread enters the same loop
WorkerUnwind(w) ==
    /\ w \in DOMAIN workers /\ workers[w].st = "panicking"
    /\ workers' = GuardDrop(workers, w)
    /\ UNCHANGED <<channel, channel_sender, jobs, send_failed, notpool>>

\* the thread that panicked ends
WorkerEnd(w) ==
    /\ w \in DOMAIN workers /\ workers[w].st = "unwound"
    /\ workers' = [workers EXCEPT ![w].st = "dead"]
    /\ UNCHANGED <<channel, channel_sender, jobs, send_failed, notpool>>

\* what r.recv() returns on an empty channel: it blocks while a Sender is alive
RecvErrEarly == ~channel_sender
RecvErr == channel = <<>> /\ ~channel_sender

\* r.recv() returns Err: `_ => break`, the thread ends
WorkerBreak(w) ==
    /\ w \in DOMAIN workers /\ workers[w].st = "recv"
    /\ RecvErr
    /\ workers' = [workers EXCEPT ![w].st = "dead"]
    /\ UNCHANGED <<channel, channel_sender, jobs, send_failed, notpool>>

\* the SharedQueueThreadPool value is dropped, and channel_sender with it
PoolDrop ==
    /\ channel_sender
    /\ channel_sender' = FALSE
    /\ UNCHANGED <<channel, workers, jobs, send_failed, notpool>>

WorkerIds == 1..(PoolThreads + MaxJobs)

WorkerStep(w) ==
    \/ WorkerRecv(w)
    \/ WorkerFinish(w)
    \/ WorkerPanic(w)
    \/ WorkerUnwind(w)
    \/ WorkerEnd(w)
    \/ WorkerBreak(w)

NextPool ==
    \/ PoolSpawn
    \/ PoolDrop
    \/ \E w \in WorkerIds : WorkerStep(w)

\* the pool does not touch the engine: one directory is enough
InitPool == Init /\ origin = "empty"

SpecPool == InitPool /\ [][NextPool]_vars

\* some thread that can take a step of a kind takes it; a job that runs returns or
\* panics
PoolFair ==
    /\ WF_vars(\E w \in WorkerIds : WorkerRecv(w))
    /\ WF_vars(\E w \in WorkerIds : WorkerFinish(w) \/ WorkerPanic(w))
    /\ WF_vars(\E w \in WorkerIds : WorkerUnwind(w))
    /\ WF_vars(\E w \in WorkerIds : WorkerEnd(w))
    /\ WF_vars(\E w \in WorkerIds : WorkerBreak(w))

PoolLive == SpecPool /\ PoolFair

---------------------------------------------------------------------------
(* The server: KvServer::run and the jobs it gives to its thread pool.     *)

\* the payloads a client may frame; "Garbage" is a frame that does not decode
Payloads == {"ReqSet", "ReqGet", "ReqRemove", "Response", "Garbage"}

\* what the engine call of a request may return; "Panic" is a call that panics
Answer(ok, val, err) == [ok |-> ok, val |-> val, err |-> err]
NotCalled == Answer(FALSE, <<>>, "not called")
EngineAnswers(payload) ==
    CASE payload = "ReqSet" -> {Answer(TRUE, <<>>, ""), Answer(FALSE, <<>>, "Io")}
      [] payload = "ReqGet" ->
            {Answer(TRUE, <<49>>, ""), Answer(TRUE, <<>>, ""), Answer(FALSE, <<>>, "Io")}
      [] payload = "ReqRemove" ->
            {Answer(TRUE, <<>>, ""), Answer(FALSE, <<>>, "RemoveNonExistentKey"),
             Answer(FALSE, <<>>, "Io")}
      [] OTHER -> {NotCalled}
EnginePanics(payload) ==
    IF payload \in {"ReqSet", "ReqGet", "ReqRemove"}
    THEN {Answer(FALSE, <<>>, "Panic")} ELSE {}

\* impl From<&Result<T, KvStoreError>> for StatusCode
StatusCodeFlat(res) == IF res.ok THEN "Ok" ELSE "FatalError"
StatusCodeFrom(res) ==
    IF res.ok THEN "Ok"
    ELSE IF res.err = "RemoveNonExistentKey" THEN "KeyNotFound" ELSE "FatalError"

\* ResponseSet / ResponseGet / ResponseRemove ::new_message
Response(kind, code, value) == [kind |-> kind, code |-> code, value |-> value]

\* the match of the connection job on the decoded payload; value is
\* res.as_ref().unwrap_or(&None).clone()
ResponseFor(payload, res) ==
    CASE payload = "ReqSet" -> Response("RespSet", StatusCodeFrom(res), <<>>)
      [] payload = "ReqGet" ->
            Response("RespGet", StatusCodeFrom(res), IF res.ok THEN res.val ELSE <<>>)
      [] payload = "ReqRemove" -> Response("RespRemove", StatusCodeFrom(res), <<>>)
      [] OTHER -> Response("RespSet", "FatalError", <<>>)

\* When run returns the server process ends, and its threads with it: nothing below
\* happens once run_state is not "running".

\* a client connects and writes its frame; the connection waits in the backlog, the
\* listener becomes readable, the frame is on its way
ClientConnect(payload) ==
    /\ run_state.st = "running"
    /\ Len(conns) < MaxConns
    /\ conns' = Append(conns, [payload |-> payload, arrived |-> FALSE, st |-> "backlog",
                               res |-> NotCalled, calls |-> 0, responses |-> <<>>,
                               why |-> ""])
    /\ backlog' = Append(backlog, Len(conns) + 1)
    /\ edge' = TRUE
    /\ UNCHANGED <<run_state, compactor_running, compaction_timer_check_count,
                   compact_jobs, notsrv>>

\* the frame of connection c reaches the server's socket
FrameArrives(c) ==
    /\ run_state.st = "running"
    /\ c \in DOMAIN conns /\ ~conns[c].arrived /\ conns[c].st # "closed"
    /\ conns' = [conns EXCEPT ![c].arrived = TRUE]
    /\ UNCHANGED <<run_state, backlog, edge, compactor_running,
                   compaction_timer_check_count, compact_jobs, notsrv>>

\* KvServerShutdownTrigger::must_shutdown, as run reads it after each return of poll
must_shutdown_never == FALSE
must_shutdown == shutdown_trigger

\* KvServerShutdownTrigger::trigger, from any thread holding a clone of the trigger
Trigger ==
    /\ ~shutdown_trigger
    /\ shutdown_trigger' = TRUE
    /\ UNCHANGED <<srvvars, notrun>>

\* poll returns (the timer makes it return every SERVER_TIMER_CHECK_PERIOD, whatever
\* the listener does) and run finds the trigger fired: break, Ok(())
ShutdownWakeup ==
    /\ run_state.st = "running"
    /\ must_shutdown
    /\ run_state' = [st |-> "Ok", why |-> "shutdown"]
    /\ UNCHANGED <<backlog, edge, conns, compactor_running,
                   compaction_timer_check_count, compact_jobs, notsrv>>

\* the connections one listener event takes from the backlog: listener.accept() is
\* called once per event
AcceptedAll(bl) == bl
Accepted(bl) == IF bl = <<>> THEN <<>> ELSE <<Head(bl)>>

\* SERVER_TOKEN: accept answers Ok (the job is given to the pool), WouldBlock
\* (break), or another error (return Err(1))
ListenerEvent(accept_err) ==
    /\ run_state.st = "running" /\ edge
    /\ ~must_shutdown
    /\ edge' = FALSE
    /\ IF accept_err
       THEN /\ run_state' = [st |-> "Err(1)", why |-> "accept"]
            /\ UNCHANGED <<backlog, conns>>
       ELSE /\ backlog' = SubSeq(backlog, Len(Accepted(backlog)) + 1, Len(backlog))
            /\ conns' = [c \in DOMAIN conns |->
                            IF \E i \in DOMAIN Accepted(backlog) : Accepted(backlog)[i] = c
                            THEN [conns[c] EXCEPT !.st = "queued"] ELSE conns[c]]
            /\ UNCHANGED run_state
    /\ UNCHANGED <<compactor_running, compaction_timer_check_count, compact_jobs, notsrv>>

\* the timer handler may submit a compaction job: the flag is clear
MaySubmitAlways == TRUE
MaySubmit == ~compactor_running

\* SERVER_TIMER_TOKEN: count down, at zero set the flag and spawn run_compactor;
\* then re-arm the timer, returning Err(1) if that fails
TimerEvent(timer_err) ==
    /\ run_state.st = "running"
    /\ ~must_shutdown
    /\ IF MaySubmit
       THEN IF compaction_timer_check_count = 0
            THEN /\ compactor_running' = TRUE
                 /\ compact_jobs' = Append(compact_jobs, "queued")
                 /\ compaction_timer_check_count' = compaction_timer_check_init
            ELSE /\ compaction_timer_check_count' = compaction_timer_check_count - 1
                 /\ UNCHANGED <<compactor_running, compact_jobs>>
       ELSE UNCHANGED <<compactor_running, compact_jobs, compaction_timer_check_count>>
    /\ run_state' = IF timer_err THEN [st |-> "Err(1)", why |-> "timer"] ELSE run_state
    /\ UNCHANGED <<backlog, edge, conns, notsrv>>

\* SERVER_SIGNALS_TOKEN with Interrupt, Terminate or Quit, or the shutdown trigger
SignalEvent ==
    /\ run_state.st = "running"
    /\ ~must_shutdown
    /\ run_state' = [st |-> "Ok", why |-> "signal"]
    /\ UNCHANGED <<backlog, edge, conns, compactor_running,
                   compaction_timer_check_count, compact_jobs, notsrv>>

\* KvServer::poll gives up: poll.poll failed
PollFails ==
    /\ run_state.st = "running"
    /\ run_state' = [st |-> "Err(1)", why |-> "poll"]
    /\ UNCHANGED <<backlog, edge, conns, compactor_running,
                   compaction_timer_check_count, compact_jobs, notsrv>>

\* recv_payload on the accepted stream, which is non-blocking: read_exact fails
\* with WouldBlock when the frame is not there, and a frame may not decode
RecvPayload(c, read_err) ==
    IF ~c.arrived THEN "WouldBlock"
    ELSE IF read_err THEN "read"
    ELSE IF c.payload = "Garbage" THEN "decode"
    ELSE ""

\* the job of a connection: recv_payload, the engine call, send_response; the stream
\* is dropped when the job ends, however it ends
ConnJob(c, read_err, res, write_err) ==
    /\ run_state.st = "running"
    /\ c \in DOMAIN conns /\ conns[c].st = "queued"
    /\ conns' = [conns EXCEPT ![c] =
          IF RecvPayload(conns[c], read_err) # ""
          THEN [@ EXCEPT !.st = "closed", !.why = RecvPayload(conns[c], read_err)]
          ELSE IF res.err = "Panic"
          THEN [@ EXCEPT !.st = "closed", !.why = "panic", !.calls = 1]
          ELSE IF write_err
          THEN [@ EXCEPT !.st = "closed", !.why = "write",
                         !.calls = IF res = NotCalled THEN 0 ELSE 1]
          ELSE [@ EXCEPT !.st = "closed", !.res = res,
                         !.calls = IF res = NotCalled THEN 0 ELSE 1,
                         !.responses = <<ResponseFor(conns[c].payload, res)>>]]
    /\ UNCHANGED <<run_state, backlog, edge, compactor_running,
                   compaction_timer_check_count, compact_jobs, notsrv>>

\* the job of connection c runs, with whatever its reads, its engine call and its
\* write do
ConnJobRuns(c) ==
    /\ c \in DOMAIN conns
    /\ \E read_err \in BOOLEAN, write_err \in BOOLEAN :
          \E res \in EngineAnswers(conns[c].payload) \cup EnginePanics(conns[c].payload) :
             ConnJob(c, read_err, res, write_err)

\* what db.compact() may do inside run_compactor; it panics in should_run_compaction
\* when the index is empty and more than CMDS_THRESHOLD commands were written
CompactOutcomes == {"Ok", "Err", "Panic"}

\* a thread of the pool takes the compaction job
CompactJobStart ==
    /\ run_state.st = "running"
    /\ compact_jobs # <<>> /\ Head(compact_jobs) = "queued"
    /\ compact_jobs' = <<"running">> \o Tail(compact_jobs)
    /\ UNCHANGED <<run_state, backlog, edge, conns, compactor_running,
                   compaction_timer_check_count, notsrv>>

\* the compaction job ends: run_compactor returned and the flag is cleared, or
\* db.compact() panicked and the rest of the closure never runs
CompactJobEnd(outcome) ==
    /\ run_state.st = "running"
    /\ compact_jobs # <<>> /\ Head(compact_jobs) = "running"
    /\ compact_jobs' = Tail(compact_jobs)
    /\ compactor_running' = IF outcome = "Panic" THEN compactor_running ELSE FALSE
    /\ UNCHANGED <<run_state, backlog, edge, conns, compaction_timer_check_count, notsrv>>

\* the listener and the connection jobs
NextSrv ==
    \/ \E payload \in Payloads : ClientConnect(payload)
    \/ \E c \in 1..MaxConns : FrameArrives(c)
    \/ \E accept_err \in BOOLEAN : ListenerEvent(accept_err)
    \/ \E c \in 1..MaxConns : ConnJobRuns(c)
    \/ SignalEvent
    \/ PollFails
    \/ Trigger
    \/ ShutdownWakeup

\* the server does not depend on what the directory held: one directory is enough
InitSrv == Init /\ origin = "empty"

SpecSrv == InitSrv /\ [][NextSrv]_vars

\* the pool runs every job it was given; a readable event is handled; the timer
\* makes poll return
SrvFair ==
    /\ WF_vars(ListenerEvent(FALSE))
    /\ WF_vars(ShutdownWakeup)
    /\ \A c \in 1..MaxConns : WF_vars(ConnJobRuns(c))

SrvLive == SpecSrv /\ SrvFair

\* the loop of run by itself, with the jobs it hands to the pool left waiting:
\* clients connect, the trigger is fired, poll returns with the listener's event,
\* a signal or nothing. The periodic timer makes poll return within
\* SERVER_TIMER_CHECK_PERIOD, and the loop then looks at the trigger
NextLoop ==
    \/ \E payload \in Payloads : ClientConnect(payload)
    \/ \E accept_err \in BOOLEAN : ListenerEvent(accept_err)
    \/ SignalEvent
    \/ PollFails
    \/ Trigger
    \/ ShutdownWakeup

SpecLoop == InitSrv /\ [][NextLoop]_vars
LoopLive == SpecLoop /\ WF_vars(ShutdownWakeup)

\* should_run_compaction on its own, over the counts up to MaxTotal and MaxKeys
NextDecide == \E total \in 0..MaxTotal, nkeys \in 0..MaxKeys : Decide(total, nkeys)

SpecDecide == Init /\ [][NextDecide]_vars

---------------------------------------------------------------------------
(* The writer mutex: set, remove and compact called from several threads   *)
(* on clones of one engine. Offsets count records. A write that fails      *)
(* leaves nothing in the file here; the bytes a partial write leaves are   *)
(* in the engine's own model.                                               *)

InSection(t) == callers[t].pc \notin {"idle", "lock"}

\* a thread enters _set, _remove or _compact and comes to self.writer_ctrl.lock()
Call(t, op, key) ==
    /\ callers[t].pc = "idle" /\ ncalls < MaxCalls
    /\ callers' = [callers EXCEPT ![t] = [Idle EXCEPT !.pc = "lock", !.op = op, !.key = key]]
    /\ ncalls' = ncalls + 1
    /\ UNCHANGED <<writer_ctrl, records, entries>>

\* what the thread does first once it is inside
Entered(t, section) ==
    [callers[t] EXCEPT !.section = section,
                       !.pc = CASE callers[t].op = "set" -> "read"
                                [] callers[t].op = "remove" -> "evict"
                                [] OTHER -> "pass",
                       !.todo = IF callers[t].op = "compact" THEN DOMAIN entries ELSE {}]

\* a lock that lets a thread in while another one holds it
LockBarging(t) ==
    /\ callers[t].pc = "lock"
    /\ writer_ctrl' = [writer_ctrl EXCEPT !.holder = t, !.sections = @ + 1]
    /\ callers' = [callers EXCEPT ![t] = Entered(t, writer_ctrl.sections + 1)]
    /\ UNCHANGED <<records, entries, ncalls>>

\* Mutex::lock of parking_lot returns the guard once no other thread holds it
Lock(t) ==
    /\ callers[t].pc = "lock"
    /\ writer_ctrl.holder = 0
    /\ writer_ctrl' = [writer_ctrl EXCEPT !.holder = t, !.sections = @ + 1]
    /\ callers' = [callers EXCEPT ![t] = Entered(t, writer_ctrl.sections + 1)]
    /\ UNCHANGED <<records, entries, ncalls>>

\* insert_entry reads the writer's id and offset before it writes
ReadOffset(t) ==
    /\ callers[t].pc = "read"
    /\ callers' = [callers EXCEPT ![t].offset = writer_ctrl.offset, ![t].pc = "append"]
    /\ UNCHANGED <<writer_ctrl, records, entries, ncalls>>

\* append_cmd: write_all and flush put the record at the end of the file
WriteAll(t) ==
    /\ callers[t].pc = "append"
    /\ records' = Append(records, [section |-> callers[t].section, key |-> callers[t].key,
                                   kind |-> IF callers[t].op = "remove" THEN "Remove" ELSE "Set"])
    /\ callers' = [callers EXCEPT ![t].pc = "count"]
    /\ UNCHANGED <<writer_ctrl, entries, ncalls>>

\* append_cmd: the write returns an error and ? leaves the function
WriteFails(t) ==
    /\ callers[t].pc = "append"
    /\ callers' = [callers EXCEPT ![t].pc = "unlock"]
    /\ UNCHANGED <<writer_ctrl, records, entries, ncalls>>

\* append_cmd: self.offset += cmd_len after the write
AdvanceOffset(t) ==
    /\ callers[t].pc = "count"
    /\ writer_ctrl' = [writer_ctrl EXCEPT !.offset = @ + 1]
    /\ callers' = [callers EXCEPT ![t].pc = IF callers[t].op = "remove" THEN "unlock"
                                            ELSE "insert"]
    /\ UNCHANGED <<records, entries, ncalls>>

\* insert_entry: storage_index.insert with the offset read before the write
StoreEntry(t) ==
    /\ callers[t].pc = "insert"
    /\ entries' = Put(entries, callers[t].key,
                      [offset |-> callers[t].offset, section |-> callers[t].section])
    /\ callers' = [callers EXCEPT ![t].pc = IF callers[t].op = "compact" THEN "pass"
                                            ELSE "unlock"]
    /\ UNCHANGED <<writer_ctrl, records, ncalls>>

\* _remove: storage_index.remove, then the Remove record, or RemoveNonExistentKey
EvictEntry(t) ==
    /\ callers[t].pc = "evict"
    /\ entries' = Del(entries, callers[t].key)
    /\ callers' = [callers EXCEPT ![t].pc = IF callers[t].key \in DOMAIN entries
                                            THEN "append" ELSE "unlock"]
    /\ UNCHANGED <<writer_ctrl, records, ncalls>>

\* do_compaction: the next record of the pass is live and goes through insert_entry
PassNext(t, key) ==
    /\ callers[t].pc = "pass"
    /\ key \in callers[t].todo \cap DOMAIN entries
    /\ callers' = [callers EXCEPT ![t].key = key, ![t].todo = @ \ {key}, ![t].pc = "read"]
    /\ UNCHANGED <<writer_ctrl, records, entries, ncalls>>

\* _compact: no pass is due, or the pass has read its last record
PassEnds(t) ==
    /\ callers[t].pc = "pass"
    /\ callers' = [callers EXCEPT ![t].pc = "unlock"]
    /\ UNCHANGED <<writer_ctrl, records, entries, ncalls>>

\* the MutexGuard is dropped where the function returns, with Ok or with Err
Unlock(t) ==
    /\ callers[t].pc = "unlock"
    /\ writer_ctrl' = [writer_ctrl EXCEPT !.holder = IF @ = t THEN 0 ELSE @]
    /\ callers' = [callers EXCEPT ![t] = Idle]
    /\ UNCHANGED <<records, entries, ncalls>>

NextLock ==
    /\ UNCHANGED notlock
    /\ \E t \in ThreadIds :
          \/ \E op \in {"set", "remove", "compact"}, key \in Keys : Call(t, op, key)
          \/ Lock(t)
          \/ ReadOffset(t)
          \/ WriteAll(t)
          \/ WriteFails(t)
          \/ AdvanceOffset(t)
          \/ StoreEntry(t)
          \/ EvictEntry(t)
          \/ \E key \in Keys : PassNext(t, key)
          \/ PassEnds(t)
          \/ Unlock(t)

SpecLock == InitSrv /\ [][NextLock]_vars

\* the timer and the compaction jobs
NextTimer ==
    \/ \E timer_err \in BOOLEAN : TimerEvent(timer_err)
    \/ CompactJobStart
    \/ \E outcome \in CompactOutcomes : CompactJobEnd(outcome)
    \/ SignalEvent
    \/ PollFails
    \/ Trigger
    \/ ShutdownWakeup

SpecTimer == Init /\ [][NextTimer]_vars

\* the pool runs the compaction job; the timer keeps ticking
TimerFair ==
    /\ WF_vars(CompactJobStart)
    /\ WF_vars(\E outcome \in CompactOutcomes : CompactJobEnd(outcome))
    /\ WF_vars(TimerEvent(FALSE))
    /\ WF_vars(ShutdownWakeup)

TimerLive == SpecTimer /\ TimerFair

---------------------------------------------------------------------------
(* The wire protocol: cp/mod.rs, cp/ser.rs, cp/de.rs.                      *)

\* strings as byte strings: "", "a" and "value"; the bytes a damaged frame may carry
Strings == {<<>>, <<97>>, <<118, 97, 108, 117, 101>>}
WireBytes == {0, 1, 2, 3, 128, 129, 193, 255}
StatusCodes == {"Ok", "KeyNotFound", "FatalError"}

\* RequestSet / RequestGet / RequestRemove / ResponseSet / ResponseGet /
\* ResponseRemove ::new_message; opt is <<>> for None and <<v>> for Some(v)
Message(kind, key, value, code, opt) ==
    [kind |-> kind, key |-> key, value |-> value, code |-> code, opt |-> opt]
Messages ==
    {Message("ReqSet", k, v, "", <<>>) : k \in Strings, v \in Strings}
    \cup {Message(kind, k, <<>>, "", <<>>) : kind \in {"ReqGet", "ReqRemove"}, k \in Strings}
    \cup {Message(kind, <<>>, <<>>, c, <<>>) : kind \in {"RespSet", "RespRemove"},
                                              c \in StatusCodes}
    \cup {Message("RespGet", <<>>, <<>>, c, o) :
            c \in StatusCodes, o \in {<<>>} \cup {<<v>> : v \in Strings}}

\* enum MessageType and enum StatusCode as u8; 255 stands for a byte that is none
MessageTypeOf(kind) ==
    CASE kind = "ReqSet" -> 0 [] kind = "ReqGet" -> 1 [] kind = "ReqRemove" -> 2
      [] kind = "RespSet" -> 128 [] kind = "RespGet" -> 129 [] kind = "RespRemove" -> 130
MessageTypeFrom(byte) ==
    CASE byte = 0 -> "ReqSet" [] byte = 1 -> "ReqGet" [] byte = 2 -> "ReqRemove"
      [] byte = 128 -> "RespSet" [] byte = 129 -> "RespGet" [] byte = 130 -> "RespRemove"
      [] OTHER -> ""
StatusByte(code) == CASE code = "Ok" -> 0 [] code = "KeyNotFound" -> 1 [] code = "FatalError" -> 2
StatusFrom(byte) ==
    CASE byte = 0 -> "Ok" [] byte = 1 -> "KeyNotFound" [] byte = 2 -> "FatalError"
      [] OTHER -> ""

\* u32::to_be_bytes of (n as u32): the low 32 bits, high byte first. And
\* u32::from_be_bytes: values of 2^31 and more are all read as 2^31 - 1, which
\* like them is longer than every buffer of the model
U32BE(n) == <<(n \div 16777216) % 256, (n \div 65536) % 256, (n \div 256) % 256, n % 256>>
FromU32BE(b4) ==
    IF b4[1] >= 128 THEN 2147483647
    ELSE b4[1] * 16777216 + b4[2] * 65536 + b4[3] * 256 + b4[4]

\* Serializer: serialize_str, serialize_none / serialize_some, and the derived
\* Serialize of the six content structs behind serialize_content
serialize_str(v) == U32BE(Len(v)) \o v
serialize_option_flat(opt) == IF opt = <<>> THEN <<0>> ELSE <<0>> \o serialize_str(opt[1])
serialize_option(opt) == IF opt = <<>> THEN <<0>> ELSE <<1>> \o serialize_str(opt[1])
SerializePayload(m) ==
    <<MessageTypeOf(m.kind)>> \o
    CASE m.kind = "ReqSet" -> serialize_str(m.key) \o serialize_str(m.value)
      [] m.kind \in {"ReqGet", "ReqRemove"} -> serialize_str(m.key)
      [] m.kind \in {"RespSet", "RespRemove"} -> <<StatusByte(m.code)>>
      [] m.kind = "RespGet" -> <<StatusByte(m.code)>> \o serialize_option(m.opt)

\* SizeSerializer: the same walk, adding sizes instead of writing bytes
SizeStrBare(v) == Len(v)
SizeStr(v) == 4 + Len(v)
SizeOption(opt) == IF opt = <<>> THEN 1 ELSE 1 + SizeStr(opt[1])
SizePayload(m) ==
    1 + CASE m.kind = "ReqSet" -> SizeStr(m.key) + SizeStr(m.value)
          [] m.kind \in {"ReqGet", "ReqRemove"} -> SizeStr(m.key)
          [] m.kind \in {"RespSet", "RespRemove"} -> 1
          [] m.kind = "RespGet" -> 1 + SizeOption(m.opt)

\* ser::calc_len(msg), and ser::to_bytes(msg, buf) on a buffer of calc_len(msg)
\* zero bytes, as send_response and the client call them: Serialize for Message
\* writes the version, calc_len(&self.payload) as u32, the payload; write_bytes
\* fails with NotEnoughSpaceInBuffer where the buffer ends
calc_len(m) == 1 + 4 + SizePayload(m)
SerializeMessage(m) ==
    <<PROTOCOL_VERSION>> \o U32BE(SizePayload(m)) \o SerializePayload(m)
to_bytes(m) ==
    IF Len(SerializeMessage(m)) <= calc_len(m)
    THEN [ok |-> TRUE,
          buf |-> SerializeMessage(m)
                  \o [i \in 1..(calc_len(m) - Len(SerializeMessage(m))) |-> 0]]
    ELSE [ok |-> FALSE, buf |-> <<>>]

\* Deserializer: every read checks rd_idx + len <= buf.len() and fails with Eof
DeFail(err) == [ok |-> FALSE, msg |-> NoMessage, err |-> err, next |-> 0]
DeOk(m, next) == [ok |-> TRUE, msg |-> m, err |-> "", next |-> next]

\* std::str::from_utf8 on the bytes of the model: of the WireBytes and the bytes of
\* Strings, the bytes below 128 are ASCII and no sequence of the others is UTF-8
Utf8Any(v) == TRUE
Utf8Ok(v) == \A i \in DOMAIN v : v[i] < 128

\* deserialize_string at offset pos (offsets from 0): [ok, str, err, next]
DeString(b, pos) ==
    IF pos + 4 > Len(b) THEN [ok |-> FALSE, str |-> <<>>, err |-> "Eof", next |-> pos]
    ELSE IF FromU32BE(Slice(b, pos, 4)) > Len(b) - (pos + 4)
    THEN [ok |-> FALSE, str |-> <<>>, err |-> "Eof", next |-> pos]
    ELSE IF ~Utf8Ok(Slice(b, pos + 4, FromU32BE(Slice(b, pos, 4))))
    THEN [ok |-> FALSE, str |-> <<>>, err |-> "InvalidUtf8Encoding", next |-> pos]
    ELSE [ok |-> TRUE, str |-> Slice(b, pos + 4, FromU32BE(Slice(b, pos, 4))), err |-> "",
          next |-> pos + 4 + FromU32BE(Slice(b, pos, 4))]

\* deserialize_option of Option<String>: [ok, opt, err, next]
DeOption(b, pos) ==
    IF pos + 1 > Len(b) THEN [ok |-> FALSE, opt |-> <<>>, err |-> "Eof", next |-> pos]
    ELSE IF b[pos + 1] = 0 THEN [ok |-> TRUE, opt |-> <<>>, err |-> "", next |-> pos + 1]
    ELSE IF b[pos + 1] = 1
    THEN [ok |-> DeString(b, pos + 1).ok, opt |-> <<DeString(b, pos + 1).str>>,
          err |-> DeString(b, pos + 1).err, next |-> DeString(b, pos + 1).next]
    ELSE [ok |-> FALSE, opt |-> <<>>, err |-> "Invalid option tag", next |-> pos]

\* Deserialize for StatusCode: deserialize_u8, then FromPrimitive::from_u8
DeStatus(b, pos) ==
    IF pos + 1 > Len(b) THEN [ok |-> FALSE, code |-> "", err |-> "Eof"]
    ELSE IF StatusFrom(b[pos + 1]) = "" THEN [ok |-> FALSE, code |-> "", err |-> "invalid value"]
    ELSE [ok |-> TRUE, code |-> StatusFrom(b[pos + 1]), err |-> ""]

\* deserialize_payload::<T> for the content struct of a message type, at offset pos
DeContent(b, pos, kind) ==
    CASE kind = "ReqSet" ->
            IF ~DeString(b, pos).ok THEN DeFail(DeString(b, pos).err)
            ELSE IF ~DeString(b, DeString(b, pos).next).ok
            THEN DeFail(DeString(b, DeString(b, pos).next).err)
            ELSE DeOk(Message(kind, DeString(b, pos).str,
                              DeString(b, DeString(b, pos).next).str, "", <<>>),
                      DeString(b, DeString(b, pos).next).next)
      [] kind \in {"ReqGet", "ReqRemove"} ->
            IF ~DeString(b, pos).ok THEN DeFail(DeString(b, pos).err)
            ELSE DeOk(Message(kind, DeString(b, pos).str, <<>>, "", <<>>),
                      DeString(b, pos).next)
      [] kind \in {"RespSet", "RespRemove"} ->
            IF ~DeStatus(b, pos).ok THEN DeFail(DeStatus(b, pos).err)
            ELSE DeOk(Message(kind, <<>>, <<>>, DeStatus(b, pos).code, <<>>), pos + 1)
      [] kind = "RespGet" ->
            IF ~DeStatus(b, pos).ok THEN DeFail(DeStatus(b, pos).err)
            ELSE IF ~DeOption(b, pos + 1).ok THEN DeFail(DeOption(b, pos + 1).err)
            ELSE DeOk(Message(kind, <<>>, <<>>, DeStatus(b, pos).code,
                              DeOption(b, pos + 1).opt),
                      DeOption(b, pos + 1).next)

\* Deserialize for MessagePayload: the discriminant byte, then the content
DePayload(b, pos) ==
    IF pos + 1 > Len(b) THEN DeFail("Eof")
    ELSE IF MessageTypeFrom(b[pos + 1]) = "" THEN DeFail("invalid type")
    ELSE DeContent(b, pos + 1, MessageTypeFrom(b[pos + 1]))

\* de::from_bytes::<Message>: MessageVisitor reads a Header (u8, u32) and drops it,
\* then the payload; nothing looks at rd_idx afterwards
from_bytes(b) ==
    IF HEADER_SIZE > Len(b) THEN DeFail("Eof") ELSE DePayload(b, HEADER_SIZE)

\* recv_payload of the server and of the client on a stream that delivers b and
\* then ends: read_exact of HEADER_SIZE bytes, from_bytes::<Header> (a u8 and a
\* u32, any values), read_exact of payload_length bytes, from_bytes::<MessagePayload>
recv_payload(b) ==
    IF Len(b) < HEADER_SIZE THEN DeFail("io")
    ELSE IF FromU32BE(Slice(b, 1, 4)) > Len(b) - HEADER_SIZE THEN DeFail("io")
    ELSE DePayload(Slice(b, HEADER_SIZE, FromU32BE(Slice(b, 1, 4))), 0)

\* a message is serialized into a buffer of calc_len bytes; a client that
\* returned has closed its stream
Write(m) ==
    /\ sent = NoMessage /\ client.phase # "returned"
    /\ to_bytes(m).ok
    /\ sent' = m
    /\ wire' = to_bytes(m).buf
    /\ UNCHANGED <<damage, decoded, client, notcp>>

\* the bytes are damaged on their way: one byte replaced, the tail cut, a byte added
Damage(kind, pos, byte) ==
    /\ sent # NoMessage /\ damage = NoDamage /\ decoded = NotDecoded
    /\ client.phase # "returned"
    /\ pos \in 1..Len(wire)
    /\ \/ kind = "byte" /\ wire[pos] # byte /\ wire' = [wire EXCEPT ![pos] = byte]
       \/ kind = "cut" /\ byte = 0 /\ wire' = SubSeq(wire, 1, pos - 1)
       \/ kind = "extra" /\ pos = Len(wire) /\ wire' = Append(wire, byte)
    /\ damage' = [kind |-> kind, pos |-> pos]
    /\ UNCHANGED <<sent, decoded, client, notcp>>

\* the receiver decodes what it got
Read ==
    /\ sent # NoMessage /\ decoded = NotDecoded /\ client = NoClient
    /\ decoded' = from_bytes(wire)
    /\ UNCHANGED <<sent, wire, damage, client, notcp>>

\* Result<_, KvClientError>: Ok(()) and Ok(None) have val <<>>, Ok(Some(v)) has <<v>>
ClientRes(kind, val) == [kind |-> kind, val |-> val]

\* the match of send_cmd_set / send_cmd_rm on what recv_payload returned (p), for
\* the response kind the command expects; the ? turns an error of recv_payload
\* into CommunicationProtocolError
StatusArm(p, kind) ==
    IF ~p.ok THEN ClientRes("CommunicationProtocolError", <<>>)
    ELSE IF p.msg.kind # kind THEN ClientRes("CommunicationProtocolMessageWrongKind", <<>>)
    ELSE IF p.msg.code = "KeyNotFound" THEN ClientRes("KeyNotFound", <<>>)
    ELSE IF p.msg.code = "FatalError" THEN ClientRes("ServerError", <<>>)
    ELSE ClientRes("Ok", <<>>)
send_cmd_set(p) == StatusArm(p, "RespSet")
send_cmd_rm(p) == StatusArm(p, "RespRemove")
send_cmd_get_strict(p) == StatusArm(p, "RespGet")
send_cmd_get(p) ==
    IF ~p.ok THEN ClientRes("CommunicationProtocolError", <<>>)
    ELSE IF p.msg.kind # "RespGet" THEN ClientRes("CommunicationProtocolMessageWrongKind", <<>>)
    ELSE IF p.msg.code = "KeyNotFound" THEN ClientRes("Ok", <<>>)
    ELSE IF p.msg.code = "FatalError" THEN ClientRes("ServerError", <<>>)
    ELSE ClientRes("Ok", p.msg.opt)
send_cmd(cmd, p) ==
    CASE cmd = "set" -> send_cmd_set(p) [] cmd = "get" -> send_cmd_get(p)
      [] cmd = "rm" -> send_cmd_rm(p)

\* bin/client.rs main: the exit code after recv_response returned r. An Err
\* leaves main through ? (exit code 1); the set and the rm branch both match
\* Response::Set, the get branch matches Response::Get
CliExit(cmd, r) ==
    IF ~r.ok THEN 1
    ELSE CASE cmd \in {"set", "rm"} ->
                IF r.msg.kind = "RespSet" /\ r.msg.code = "Ok" THEN 0 ELSE 1
           [] cmd = "get" ->
                IF r.msg.kind = "RespGet" /\ r.msg.code = "Ok" /\ r.msg.opt # <<>>
                THEN 0 ELSE 1

\* a client command starts: TcpStream::connect (KvClient) or connect_timeout
\* (binary) fails, or it succeeds and the request is written
ClientStart(prog, cmd, connect_err) ==
    /\ client = NoClient /\ sent = NoMessage
    /\ client' = IF connect_err
                 THEN [phase |-> "returned", prog |-> prog, cmd |-> cmd,
                       res |-> ClientRes("IoError", <<>>), exit |-> 1]
                 ELSE [NoClient EXCEPT !.phase = "waiting", !.prog = prog, !.cmd = cmd]
    /\ UNCHANGED <<sent, wire, damage, decoded, notcp>>

\* the bytes of the server arrive and the read of the client returns: recv_payload
\* in KvClient, recv_response (from_bytes::<Message> of what was read) in the binary
ClientRecv ==
    /\ client.phase = "waiting" /\ sent # NoMessage
    /\ client' = [client EXCEPT
                    !.phase = "returned",
                    !.res = IF client.prog = "lib" THEN send_cmd(client.cmd, recv_payload(wire))
                            ELSE @,
                    !.exit = IF client.prog = "cli" THEN CliExit(client.cmd, from_bytes(wire))
                             ELSE @]
    /\ UNCHANGED <<sent, wire, damage, decoded, notcp>>

\* the server closes the connection without a response: the read fails
PeerCloses ==
    /\ client.phase = "waiting" /\ sent = NoMessage
    /\ client' = [client EXCEPT
                    !.phase = "returned",
                    !.res = IF client.prog = "lib"
                            THEN send_cmd(client.cmd, recv_payload(<<>>)) ELSE @,
                    !.exit = IF client.prog = "cli" THEN CliExit(client.cmd, from_bytes(<<>>))
                             ELSE @]
    /\ UNCHANGED <<sent, wire, damage, decoded, notcp>>

NextCp ==
    \/ \E m \in Messages : Write(m)
    \/ \E kind \in {"byte", "cut", "extra"}, pos \in 1..32, byte \in WireBytes :
          Damage(kind, pos, byte)
    \/ Read
    \/ \E prog \in {"lib", "cli"}, cmd \in {"set", "get", "rm"}, connect_err \in BOOLEAN :
          ClientStart(prog, cmd, connect_err)
    \/ ClientRecv
    \/ PeerCloses

SpecCp == InitSrv /\ [][NextCp]_vars

\* a read that can return does return; nothing makes the server answer, and the
\* client sets no timer that would end its wait
CpFair == WF_vars(ClientRecv)
CpLive == SpecCp /\ CpFair

NextGet ==
    \/ Next
    \/ \E k \in Keys : GetBegin(k)
    \/ GetEnd

SpecGet == Init /\ [][NextGet]_vars

---------------------------------------------------------------------------
(* Properties of the storage engine.                                       *)

\* a get result res is the answer the history e calls for
Agrees(res, e) == res.kind = e.kind /\ res.val = e.val

\* C1: after set and remove calls that all returned Ok on an engine opened on an
\* empty directory, closing it and opening the directory again gives an engine
\* whose get(K) returns the last value set for K, or None when K was never set or
\* its last mutation was a remove.
C1_ReopenReplaysLastValue ==
    (origin = "empty" /\ last.op = "open" /\ last.res.kind = "Ok" /\ nfaults = 0)
        => \A k \in Keys : \A r \in Readers :
               expected[k].kind # "Unknown" => Agrees(GetNow(r, k), expected[k])

\* C2: on a live engine, once set(K, V) has returned Ok and no later set or remove
\* of K has been made, get(K) returns Some(V).
C2_GetReturnsValueSet ==
    nfaults = 0
        => \A k \in Keys : \A r \in Readers :
               (expected[k].kind = "Some" /\ expected[k].why = "live")
                   => Agrees(GetNow(r, k), expected[k])

C4_FailedAppendKeepsIndex ==
    (last.op \in {"set", "remove"} /\ last.res.kind = "Err" /\ last.res.why = "append")
        => storage_index = prev.index

\* C5: when opening the next segment file fails during rollover, the active writer's
\* segment id, file handle, offset and record counter are all what they were before.
C5_FailedRolloverKeepsWriter ==
    (last.op = "compact" /\ last.res.kind = "Err" /\ last.res.why = "open_new")
        => curr_log = prev.curr_log

\* C6: when a compaction pass stops on a failed open, read or append, get(K) still
\* returns for every key K what it returned before the pass (asked through the same
\* handle, with no get in between).
C6_AbortedPassKeepsValues ==
    (last.op = "compact" /\ last.res.kind = "Err"
         /\ last.res.why \in {"open_seg", "read", "append"} /\ curr_log_r = prev.reader)
        => \A k \in Keys : /\ GetNow(curr_log_r, k) = prev.get_own[k]
                           /\ GetNow(open_log_r, k) = prev.get_clone[k]

\* C7: after open, the write cursor of the active segment is the offset at which
\* decoding its records stopped, so a trailing partial record lies after the cursor.
C7_CursorWhereDecodingStopped ==
    (last.op = "open" /\ last.res.kind = "Ok") => curr_log.offset = last.stop

\* C8: a compact call that returns Ok, with no other call running, leaves get(K)
\* returning for every key K exactly what it returned before (asked through the same
\* handle, with no get in between).
C8_CompactionKeepsValues ==
    (last.op = "compact" /\ last.res.kind = "Ok" /\ nfaults = 0
         /\ curr_log_r = prev.reader)
        => \A k \in Keys : /\ GetNow(curr_log_r, k) = prev.get_own[k]
                           /\ GetNow(open_log_r, k) = prev.get_clone[k]

\* C9: when a compaction pass has run to its end, every sealed segment (id below the
\* active one) has had its file removed or scheduled for removal, the segments that
\* were already in the directory when the engine was opened included.
C9_PassRetiresEverySealedSegment ==
    (last.op = "compact" /\ last.res = Res("Ok", <<>>, "pass") /\ nfaults = 0)
        => \A id \in dir : id < curr_log.id => id \in deferred

\* the segment the last set or remove appended to, as that call left it
WrittenSegment ==
    [prev.curr_log EXCEPT !.cmd_counter = @ + 1, !.offset = Len(disk[prev.curr_log.id])]

\* C10: when a set or remove leaves the active segment over the size threshold or the
\* record-count threshold, the engine has opened segment id + 1 for the next writes.
C10_WriteRollsOver ==
    (last.op \in {"set", "remove"} /\ last.res.kind = "Ok" /\ nfaults = 0
         /\ ShouldCreateNewFile(WrittenSegment))
        => curr_log.id = prev.curr_log.id + 1

\* C11: a get that holds an index entry into segment S while a compaction pass
\* rewrites the live records of S and retires S returns the key's value: it does not
\* fail and does not return the bytes of another record.
C11_GetDuringCompaction ==
    (got.concurrent /\ got.exp.kind = "Some" /\ nfaults = 0) => Agrees(got.res, got.exp)

\* C12: whatever jobs panic, while the pool exists the number of live threads of a
\* pool built with N threads is never below N, and it is N whenever no thread is
\* unwinding from a panic.
C12_WorkerCountKept ==
    channel_sender =>
        /\ Cardinality(Live) >= PoolThreads
        /\ (\A w \in DOMAIN workers : workers[w].st \in {"recv", "run", "dead"})
               => Cardinality(Live) = PoolThreads

\* a thread that panicked has ended, its replacement is running a job, and the pool
\* has its N threads
C12_RanAfterPanic ==
    /\ channel_sender
    /\ \E w \in DOMAIN workers : workers[w].st = "dead"
    /\ \E w \in DOMAIN workers : w > PoolThreads /\ workers[w].st = "run"
    /\ \A w \in DOMAIN workers : workers[w].st \in {"recv", "run", "dead"}
    /\ Cardinality(Live) = PoolThreads

\* C13: on a pool of N >= 1 threads no spawn fails, spawn can be called whatever the
\* threads are doing, no job is run twice, and every job given to spawn is run: from
\* some point on every job submitted so far has been run once.
C13_EveryJobRunsOnce ==
    /\ [](~send_failed /\ \A j \in DOMAIN jobs : jobs[j].runs <= 1)
    /\ []((channel_sender /\ Len(jobs) < MaxJobs) => ENABLED PoolSpawn)
    /\ <>[](\A j \in DOMAIN jobs : jobs[j].runs = 1)

\* every thread is running a job, one more job was given to spawn and waits in the
\* channel, and no spawn has failed
C13_QueuedWhileBusy ==
    /\ Busy = Live /\ Cardinality(Busy) = PoolThreads
    /\ channel # <<>>
    /\ ~send_failed

\* C14: once the pool is dropped, the jobs left in the channel are run and then every
\* thread, the replacements included, ends.
C14_DropDrainsAndEnds ==
    (~channel_sender) ~>
        (Live = {} /\ channel = <<>> /\ \A j \in DOMAIN jobs : jobs[j].runs = 1)

\* the pool is dropped while a job waits in the channel and a thread is about to be
\* replaced after a panic
C14_DroppedWithJobsQueued ==
    /\ ~channel_sender /\ channel # <<>>
    /\ \E w \in DOMAIN workers : workers[w].st = "panicking"

\* C15: at most one compaction job submitted by the timer is queued or running at
\* any time, and while one is the compactor-running flag is set.
C15_OneCompactionJob ==
    /\ Len(compact_jobs) <= 1
    /\ compact_jobs # <<>> => compactor_running

\* the timer has submitted a compaction job, a thread is running it and run is
\* still handling timer events
C15_JobInFlight ==
    /\ compact_jobs = <<"running">>
    /\ compactor_running
    /\ run_state.st = "running"

\* C16: whenever the compactor-running flag is set it is cleared later, however
\* db.compact() ends, unless the server stops first.
C16_FlagCleared ==
    compactor_running ~> (~compactor_running \/ run_state.st # "running")

\* C17: a listener event that run handles without failing leaves no connection in
\* the backlog: every connection pending at the event is accepted in that wakeup.
C17_AcceptsAllPending ==
    [][(edge /\ ~edge' /\ run_state' = run_state) => backlog' = <<>>]_vars

Requests == {"ReqSet", "ReqGet", "ReqRemove"}

\* C18: the response sent for a decoded payload has the kind of the request and the
\* status of the engine result (Ok; KeyNotFound for the remove of an absent key;
\* FatalError for any other error), a get carries the value found or none, and a
\* Response payload is answered RespSet{FatalError} without an engine call.
C18_ResponseFollowsResult ==
    \A c \in DOMAIN conns :
        conns[c].responses # <<>> =>
            /\ Len(conns[c].responses) = 1
            /\ conns[c].payload = "ReqSet" =>
                  conns[c].responses[1].kind = "RespSet"
            /\ conns[c].payload = "ReqGet" =>
                  /\ conns[c].responses[1].kind = "RespGet"
                  /\ conns[c].res.ok => conns[c].responses[1].value = conns[c].res.val
            /\ conns[c].payload = "ReqRemove" =>
                  conns[c].responses[1].kind = "RespRemove"
            /\ conns[c].payload \in Requests =>
                  /\ conns[c].calls = 1
                  /\ conns[c].responses[1].code =
                        IF conns[c].res.ok THEN "Ok"
                        ELSE IF conns[c].res.err = "RemoveNonExistentKey" THEN "KeyNotFound"
                        ELSE "FatalError"
            /\ conns[c].payload = "Response" =>
                  /\ conns[c].calls = 0
                  /\ conns[c].responses[1] =
                        [kind |-> "RespSet", code |-> "FatalError", value |-> <<>>]

\* a remove of an absent key was answered KeyNotFound and a Response payload was
\* answered RespSet{FatalError}
C18_KeyNotFoundAndProtocolError ==
    /\ \E c \in DOMAIN conns :
          /\ conns[c].payload = "ReqRemove"
          /\ conns[c].res.err = "RemoveNonExistentKey"
          /\ conns[c].responses # <<>>
    /\ \E c \in DOMAIN conns :
          conns[c].payload = "Response" /\ conns[c].responses # <<>>

\* C19: a connection whose client wrote one well-formed request frame, and on which
\* no read, engine call or write failed, is closed with exactly one response sent,
\* whether or not the frame had arrived when the job began to read.
C19_OneResponsePerRequest ==
    \A c \in DOMAIN conns :
        (/\ conns[c].st = "closed"
         /\ conns[c].payload \in Requests
         /\ conns[c].why \notin {"read", "write", "panic"})
            => Len(conns[c].responses) = 1

\* C20: run does not return because of a failure of one connection.
C20_ConnectionFailureKeepsRun == run_state.why # "accept"

C22_RoundTrip ==
    (decoded # NotDecoded /\ damage = NoDamage) => (decoded.ok /\ decoded.msg = sent)

\* a ResponseGet carrying Some("value") was written and read back
C22_ReadBackSome ==
    /\ damage = NoDamage /\ decoded.ok
    /\ sent.kind = "RespGet" /\ sent.opt = <<<<118, 97, 108, 117, 101>>>>

\* C23: whenever a buffer decodes to a message, encoding that message gives the
\* buffer back.
C23_CanonicalEncoding == decoded.ok => to_bytes(decoded.msg).buf = wire

\* C24: a buffer whose first byte is not PROTOCOL_VERSION does not decode.
C24_VersionChecked ==
    (decoded # NotDecoded /\ Len(wire) >= 1 /\ wire[1] # PROTOCOL_VERSION)
        => (~decoded.ok /\ ~recv_payload(wire).ok)

\* the encoding of ResponseGet{Ok, Some("value")} in test_serde_response_get
ExampleBytes == <<193, 0, 0, 0, 12, 129, 0, 1, 0, 0, 0, 5, 118, 97, 108, 117, 101>>

InStringBody(m, pos) ==
    \/ m.kind \in {"ReqSet", "ReqGet", "ReqRemove"} /\ pos \in 11..(10 + Len(m.key))
    \/ m.kind = "ReqSet" /\ pos \in (15 + Len(m.key))..(14 + Len(m.key) + Len(m.value))
    \/ m.kind = "RespGet" /\ m.opt # <<>> /\ pos \in 13..(12 + Len(m.opt[1]))

\* the damage made the bytes one of the malformed inputs: a strict prefix, an
\* unknown type byte, a status byte above 2, an option tag above 1, a string
\* body that is not UTF-8
Malformed ==
    \/ damage.kind = "cut"
    \/ /\ damage.kind = "byte"
       /\ \/ damage.pos = 6 /\ wire[6] \notin {0, 1, 2, 128, 129, 130}
          \/ damage.pos = 7 /\ sent.kind \in {"RespSet", "RespGet", "RespRemove"} /\ wire[7] > 2
          \/ damage.pos = 8 /\ sent.kind = "RespGet" /\ wire[8] > 1
          \/ InStringBody(sent, damage.pos) /\ wire[damage.pos] >= 128

\* C26: decoding a malformed input (unknown type byte, status byte above 2,
\* option tag other than 0 and 1, string that is not UTF-8, strict prefix of a
\* valid encoding) gives a decode error and no message; a strict prefix gives Eof.
C26_MalformedRejected ==
    (decoded # NotDecoded /\ Malformed) =>
        /\ ~decoded.ok /\ decoded.msg = NoMessage
        /\ decoded.err \in {"Eof", "InvalidUtf8Encoding", "Invalid option tag",
                            "invalid value", "invalid type"}
        /\ damage.kind = "cut" => decoded.err = "Eof"

\* a string body that is not UTF-8 was decoded
C26_BadUtf8Decoded ==
    /\ damage.kind = "byte" /\ InStringBody(sent, damage.pos) /\ wire[damage.pos] = 255
    /\ decoded.err = "InvalidUtf8Encoding"

\* the payload the client's read returned
Got == recv_payload(wire)

\* C27: get gives Ok(None) for a RespGet with status KeyNotFound and for status
\* Ok with no value, Ok(Some(v)) for status Ok with value v, the server error
\* for FatalError, and the wrong-kind error for any payload that is not a
\* RespGet; set and remove give Ok exactly for a response of their own kind with
\* status Ok.
C27_ClientMapsResponse ==
    (client.phase = "returned" /\ client.prog = "lib" /\ sent # NoMessage /\ Got.ok) =>
        /\ client.cmd = "get" =>
              /\ (Got.msg.kind = "RespGet" /\ Got.msg.code = "KeyNotFound")
                    => client.res = [kind |-> "Ok", val |-> <<>>]
              /\ (Got.msg.kind = "RespGet" /\ Got.msg.code = "Ok")
                    => client.res = [kind |-> "Ok", val |-> Got.msg.opt]
              /\ (Got.msg.kind = "RespGet" /\ Got.msg.code = "FatalError")
                    => client.res.kind = "ServerError"
              /\ Got.msg.kind # "RespGet"
                    => client.res.kind = "CommunicationProtocolMessageWrongKind"
        /\ client.cmd = "set" =>
              (client.res.kind = "Ok" <=> (Got.msg.kind = "RespSet" /\ Got.msg.code = "Ok"))
        /\ client.cmd = "rm" =>
              (client.res.kind = "Ok" <=> (Got.msg.kind = "RespRemove" /\ Got.msg.code = "Ok"))

\* get returned Ok(None) for a RespGet with status KeyNotFound
C27_KeyNotFoundIsNone ==
    /\ client.phase = "returned" /\ client.prog = "lib" /\ client.cmd = "get"
    /\ sent # NoMessage /\ Got.ok /\ Got.msg.kind = "RespGet" /\ Got.msg.code = "KeyNotFound"
    /\ client.res = [kind |-> "Ok", val |-> <<>>]

\* C28: every command of KvClient that was started eventually returns, also when
\* the server never sends a response.
C28_ClientReturns ==
    (client.phase = "waiting" /\ client.prog = "lib") ~> (client.phase = "returned")

\* C29: no engine operation panics while memory can be allocated: compact returns
\* Ok or a typed error, also with more than CMDS_THRESHOLD commands written and
\* an empty index, and the deferred removal of a retired segment does not panic.
C29_NoPanic == last.res.kind = "Panic" => last.res.why = "alloc"

\* the request a command sends
RequestOf(cmd) ==
    CASE cmd = "set" -> "ReqSet" [] cmd = "get" -> "ReqGet" [] cmd = "rm" -> "ReqRemove"

\* C30: when the server answers a command of the binary with the response it
\* builds for that request, the binary exits with 0 if the command succeeded
\* (status Ok, and for get a value) and with 1 otherwise (failure on the server,
\* get or rm of a missing key); it exits with 1 when no response arrives.
C30_ExitCodes ==
    /\ (/\ client.phase = "returned" /\ client.prog = "cli"
        /\ sent # NoMessage /\ damage = NoDamage
        /\ sent.kind = ResponseFor(RequestOf(client.cmd), NotCalled).kind)
            => (client.exit = 0 <=>
                    (sent.code = "Ok" /\ (client.cmd = "get" => sent.opt # <<>>)))
    /\ (client.phase = "returned" /\ client.prog = "cli" /\ sent = NoMessage)
            => client.exit = 1

\* C31: on an index hit get returns what the length bytes at offset of the file of
\* the entry's segment decode to, whatever segment the reader of the handle (the
\* long-lived one, a fresh clone) was last opened on.
C31_ReadsIndexedSegment ==
    (opened /\ nfaults = 0) =>
        \A k \in DOMAIN storage_index : \A r \in Readers :
            storage_index[k].log_id \in dir =>
                GetNow(r, k) = ValueOf(ReadCmdAt(disk[storage_index[k].log_id],
                                                 storage_index[k].offset,
                                                 storage_index[k].len), r).res

\* what replaying the segment files of the directory in id order yields
Replay == BuildIndex(disk, SortedIds(dir), EmptyScan, FALSE)

\* C32: for every key K of the index the bytes [offset, offset + length) of the
\* entry's segment exist on disk and decode to a Set record of K, and that record
\* is the last record for K on disk.
C32_IndexPointsAtLastSet ==
    opened =>
        \A k \in DOMAIN storage_index :
            /\ storage_index[k].log_id \in dir
            /\ ReadCmdAt(disk[storage_index[k].log_id], storage_index[k].offset,
                         storage_index[k].len).kind = "Set"
            /\ ReadCmdAt(disk[storage_index[k].log_id], storage_index[k].offset,
                         storage_index[k].len).key = k
            /\ k \in DOMAIN Replay.index
            /\ Replay.index[k] = storage_index[k]

\* C33: with no operation having failed, a key that is not in the index has no Set
\* on disk or has a Remove as its last record on disk: replaying the directory
\* does not bring it back.
C33_AbsentKeyStaysAbsent ==
    (opened /\ nfaults = 0) => \A k \in Keys \ DOMAIN storage_index : k \notin DOMAIN Replay.index

\* C34: the active segment's id is the largest id of a segment file in the
\* directory and its file exists, and a compact call that changes the active id
\* increases it by exactly 1.
C34_ActiveIdIsLargest ==
    opened =>
        /\ curr_log.id \in dir
        /\ \A id \in dir : id <= curr_log.id
        /\ (last.op = "compact" /\ curr_log.id # prev.curr_log.id)
               => curr_log.id = prev.curr_log.id + 1

C36_RetiredSegmentUnreferenced ==
    opened => \A k \in DOMAIN storage_index : storage_index[k].log_id \notin deferred

\* the records a segment file holds from offset pos on: the records appended to it,
\* with the 6 bytes a failed write left between two of them passed over
RECURSIVE RecordsIn(_, _)
RecordsIn(b, pos) ==
    IF DecodeAt(b, pos).kind \in {"Set", "Remove"} THEN 1 + RecordsIn(b, DecodeAt(b, pos).next)
    ELSE IF pos + 6 < Len(b) THEN RecordsIn(b, pos + 6)
    ELSE 0

RECURSIVE RecordsOf(_)
RecordsOf(ids) ==
    IF ids = {} THEN 0
    ELSE RecordsIn(disk[SetMin(ids)], 0) + RecordsOf(ids \ {SetMin(ids)})

\* C38: the total command counter is the number of records in the segments that
\* are in the directory and not scheduled for removal, and subtracting a retired
\* segment's count never underflows.
C38_TotalCountsLiveRecords ==
    /\ opened => total_cmd_counter = RecordsOf(dir \ deferred)
    /\ last.res.why # "underflow"

\* C40: the writer's tracked segment id names a file of the directory and its
\* tracked offset is the length of that file, so the next record starts where
\* the next index entry says it does.
C40_TrackedOffsetIsFileLength ==
    opened =>
        /\ curr_log.id \in dir
        /\ curr_log.offset = Len(disk[curr_log.id])

\* C37: for a non-empty index, should_run_compaction answers that a pass runs
\* exactly when the total is above CMDS_THRESHOLD and total / keys is above
\* CMD_KEY_FACTOR = 1.5, that is when 2 * total > 3 * keys.
C37_PassIffRatioAboveFactor ==
    (decision.called /\ decision.nkeys > 0) =>
        (decision.out = "pass"
            <=> (decision.total > CMDS_THRESHOLD /\ 2 * decision.total > 3 * decision.nkeys))

\* the example of C37, scaled by 1000: 17 commands over 10 keys
C37_Example ==
    (decision.called /\ decision.total = 17 /\ decision.nkeys = 10) => decision.out = "pass"

\* C39: at most one thread is inside the critical section of set, remove or
\* compact; the record a thread has written and not yet counted is the last one
\* of the file, and otherwise the guarded offset is the end of the file; every
\* index entry points at a Set record of its key written in the critical
\* section that stored the entry.
C39_WriterExclusive ==
    /\ \A t, u \in ThreadIds : (InSection(t) /\ InSection(u)) => t = u
    /\ \A t \in ThreadIds : InSection(t) => writer_ctrl.holder = t
    /\ Len(records) = writer_ctrl.offset
                        + (IF \E t \in ThreadIds : callers[t].pc = "count" THEN 1 ELSE 0)
    /\ \A t \in ThreadIds : callers[t].pc = "count"
            => records[Len(records)].section = callers[t].section
    /\ \A k \in DOMAIN entries :
          /\ entries[k].offset < Len(records)
          /\ records[entries[k].offset + 1].section = entries[k].section
          /\ records[entries[k].offset + 1].key = k
          /\ records[entries[k].offset + 1].kind = "Set"

\* a thread waits at lock() while another one, inside, has written its record and
\* is about to store the index entry, and an entry of an earlier section exists
C39_WaitsWhileOtherInside ==
    \E t, u \in ThreadIds :
        /\ callers[t].pc = "lock"
        /\ callers[u].pc = "insert"
        /\ writer_ctrl.holder = u
        /\ entries # <<>>

====
